---- MODULE Spec2Model ----
(***************************************************************************)
(* A model of the ICD-11 retrieval-augmented assistant:                    *)
(*   - the chat turn of src/app.py (medical_chat, retrieve_icd_context)    *)
(*     and of its streaming variant src/test.py;                           *)
(*   - the index build of src/preprocess.py (build_index, three passes).   *)
(* Python strings are TLA+ strings; TLC evaluates Len, \o, SubSeq, Head    *)
(* and Tail on them.  The vector store, the retriever, the embedding model *)
(* and the language model are external: their answers are inputs.         *)
(***************************************************************************)
EXTENDS Integers, Sequences, FiniteSets, TLC

VARIABLES
    \* ---- chat (src/app.py, src/test.py)
    program,        \* "app" or "test": which script serves the chatbot
    chatbot,        \* value of the gr.Chatbot component (history between turns)
    pc,             \* position of the turn handler
    turns,          \* turns started so far
    user_message,   \* argument of medical_chat
    prior,          \* the history argument as it was passed in
    history,        \* the handler's local list
    first_hits,     \* what the retriever answered to the first search
    docs,           \* chunks retrieve_icd_context returned
    context,        \* combined context it returned
    searches,       \* strings handed to retriever.invoke during the turn, in order
    llmCalls,       \* prompts handed to llm.invoke during the turn, in order
    answer,         \* answer / final_answer of the turn
    words,          \* test.py: final_answer.split(), not yet streamed
    partial         \* test.py: the streamed text so far

chatVars == <<program, chatbot, pc, turns, user_message, prior, history,
              first_hits, docs,
              context, searches, llmCalls, answer, words, partial>>

VARIABLES
    \* ---- query expansion applied on its own (src/app.py lines 31-36)
    eq,             \* the query
    epc,            \* "start", "once", "twice"
    e1,             \* the expansion of eq
    e2              \* the expansion of e1

expandVars == <<eq, epc, e1, e2>>

VARIABLES
    \* ---- index build (src/preprocess.py, build_index)
    json_dir,               \* the input files, in the order glob yields them
    skip_missing_defs,      \* --skip_missing_defs
    batch_size,             \* --batch_size
    bpc,                    \* position of build_index
    runs,                   \* how often the script has been started
    total_json,
    skipped_missing_defs,
    code2url,
    cleaned_files,
    file_idx,               \* files of json_dir the pass-1 loop has taken
    skip_log,               \* the "[skip]" lines printed, as <<file, exception>>
    txt_dir,                \* the text files: name -> content
    unwritable,             \* names in txt_dir that write_text cannot write
    chunk_docs,             \* docs of pass 2
    offset,                 \* i of line 143: offset of the current batch
    step,                   \* "add" or "persist" within one batch
    vectordb,               \* "None" or "open"
    stored,                 \* the collection as the open client has it
    persisted,              \* the collection as index_dir holds it
    index_at_start,         \* what index_dir held when this run began
    \* ---- src/utils/convert_json_to_text.py (shares json_dir, file_idx, txt_dir)
    count,
    log

indexVars == <<json_dir, skip_missing_defs, batch_size, bpc, runs, total_json,
               skipped_missing_defs, code2url, cleaned_files, file_idx,
               skip_log, txt_dir, unwritable, chunk_docs, offset, step,
               vectordb, stored, persisted, index_at_start, count, log>>

vars == <<chatVars, expandVars, indexVars>>

(***************************************************************************)
(* Bounds of the model.                                                    *)
(***************************************************************************)
MaxTurns  == 1   \* chat turns handled in one session
MaxTokens == 2   \* a query to expand is made of at most this many pieces
MaxFiles  == 2   \* input files in json_dir
MaxBatch  == 2   \* largest --batch_size
MaxRuns   == 2   \* starts of preprocess.py on the same directories
chunk_size    == 96   \* --chunk_size
chunk_overlap == 8    \* --chunk_overlap

(***************************************************************************)
(* String helpers (Python str methods used by the scripts).                *)
(***************************************************************************)
Upper == "ABCDEFGHIJKLMNOPQRSTUVWXYZ"
Lower == "abcdefghijklmnopqrstuvwxyz"

Char(s, i) == SubSeq(s, i, i)

LowerChar(c) ==
    IF \E i \in 1..Len(Upper) : Char(Upper, i) = c
    THEN Char(Lower, CHOOSE i \in 1..Len(Upper) : Char(Upper, i) = c)
    ELSE c

RECURSIVE ToLower(_)
ToLower(s) == IF s = "" THEN "" ELSE LowerChar(Head(s)) \o ToLower(Tail(s))

IsSpace(c) == c \in {" ", "\t", "\n"}

RECURSIVE LStrip(_)
LStrip(s) == IF s # "" /\ IsSpace(Head(s)) THEN LStrip(Tail(s)) ELSE s

RECURSIVE RStrip(_)
RStrip(s) ==
    IF s # "" /\ IsSpace(Char(s, Len(s)))
    THEN RStrip(SubSeq(s, 1, Len(s) - 1))
    ELSE s

Strip(s) == RStrip(LStrip(s))

\* Python's  sub in s
Contains(sub, s) ==
    \E i \in 1..(Len(s) - Len(sub) + 1) : SubSeq(s, i, i + Len(sub) - 1) = sub

\* Python's  sep.join(parts)
RECURSIVE Join(_, _)
Join(sep, parts) ==
    IF parts = <<>> THEN ""
    ELSE IF Len(parts) = 1 THEN parts[1]
    ELSE parts[1] \o sep \o Join(sep, Tail(parts))

\* Python's  s.split()  (split on runs of whitespace)
RECURSIVE FirstWordLen(_)
FirstWordLen(s) ==
    IF s = "" \/ IsSpace(Head(s)) THEN 0 ELSE 1 + FirstWordLen(Tail(s))

RECURSIVE Split(_)
Split(s) ==
    LET t == LStrip(s)
        n == FirstWordLen(t)
    IN  IF t = "" THEN <<>>
        ELSE <<SubSeq(t, 1, n)>> \o Split(SubSeq(t, n + 1, Len(t)))


(***************************************************************************)
(* src/app.py: synonym table, query expansion, retrieval.                  *)
(***************************************************************************)
top_k == 4
MinContextLen == 50

\* dict literal; Python iterates it in insertion order
SYNONYM_MAP == <<
    <<"heart attack",   "myocardial infarction">>,
    <<"stroke",         "cerebrovascular accident">>,
    <<"flu",            "influenza">>,
    <<"chickenpox",     "varicella">>,
    <<"whooping cough", "pertussis">>,
    <<"lockjaw",        "tetanus">>,
    <<"german measles", "rubella">> >>

Layman(k)  == SYNONYM_MAP[k][1]
Medical(k) == SYNONYM_MAP[k][2]

\* an expansion that stops at the first matching pair
RECURSIVE ExpandFirstOnly(_, _)
ExpandFirstOnly(normalized_query, k) ==
    IF k > 7 THEN normalized_query
    ELSE IF Contains(Layman(k), normalized_query)
         THEN normalized_query \o " " \o Medical(k)
         ELSE ExpandFirstOnly(normalized_query, k + 1)

\* the loop of lines 34-36 from pair k on: the test reads the query as
\* extended so far
RECURSIVE ExpandFrom(_, _)
ExpandFrom(normalized_query, k) ==
    IF k > Len(SYNONYM_MAP) THEN normalized_query
    ELSE ExpandFrom(IF Contains(Layman(k), normalized_query)
                    THEN normalized_query \o " " \o Medical(k)
                    ELSE normalized_query,
                    k + 1)

\* lines 31-36
ExpandQuery(query) == ExpandFrom(Strip(ToLower(query)), 1)

\* lines 43-46: index of the first pair whose layman term is in query.lower(),
\* 0 if the loop ends without a break
RECURSIVE FirstFrom(_, _)
FirstFrom(lowered, k) ==
    IF k > Len(SYNONYM_MAP) THEN 0
    ELSE IF Contains(Layman(k), lowered) THEN k
    ELSE FirstFrom(lowered, k + 1)

FirstSynonym(query) == FirstFrom(ToLower(query), 1)

\* a second search whenever a pair matches
SecondSearchAlways(synonym, first) == synonym # 0

\* lines 42-44: the second search is issued when the first came back empty
\* and some pair matches
SecondSearch(synonym, first) == first = <<>> /\ synonym # 0

PageContents(ds) == [i \in 1..Len(ds) |-> ds[i].page_content]

\* lines 51-52
CombinedContext(ds) == Strip(Join("\n\n", PageContents(ds)))

\* retrieve_icd_context(query): first and second are what the retriever
\* answers to the first and to the second invoke
retrieve_icd_context(query, first, second) ==
    LET synonym == FirstSynonym(query)
        again   == SecondSearch(synonym, first)
        ds      == IF again THEN second ELSE first
    IN  [ searches |-> <<ExpandQuery(query)>> \o
                       (IF again THEN <<Medical(synonym)>> ELSE <<>>),
          context  |-> IF ds = <<>> THEN "" ELSE CombinedContext(ds),
          docs     |-> ds ]

(***************************************************************************)
(* src/app.py: medical_chat.  Texts are the source's without the emoji     *)
(* and with ASCII apostrophes.                                             *)
(***************************************************************************)
FALLBACK_APP ==
    " I couldn't find an exact ICD-11 match for your query. Try rephrasing or be more specific."
REFS_APP    == "\n\n**ICD-11 References:** "
NO_MATCH    == "\n\n*No exact ICD-11 match found.*"

\* the guard of test.py line 34: no length threshold
IsFallbackEmptyOnly(ctx) == ctx = ""

\* line 61
IsFallback(ctx) == ctx = "" \/ Len(ctx) < MinContextLen

\* lines 65-78
PromptApp(ctx, question) ==
    "\nYou are a WHO ICD-11 medical assistant.\nICD-11 Context:\n" \o ctx
    \o "\n\nUser Question: " \o question
    \o "\n\nAnswer in a clear, medical style:\n"

\* dict.get(key, default)
Get(metadata, key, default) ==
    IF key \in DOMAIN metadata THEN metadata[key] ELSE default

\* lines 84-87
SourcesApp(ds) ==
    [i \in 1..Len(ds) |->
        "[" \o Get(ds[i].metadata, "icd_code", "unknown") \o "]("
            \o Get(ds[i].metadata, "browser_url", "#") \o ")"]

\* a footer that lists references without looking at docs
FooterAlwaysRefs(ds) == "\n\n**ICD-11 References:** " \o Join(", ", [i \in 1..Len(ds) |-> "#"])

\* lines 83-90
FooterApp(ds) ==
    IF ds # <<>> THEN REFS_APP \o Join(", ", SourcesApp(ds)) ELSE NO_MATCH

\* lines 61-90; raw_answer is what llm.invoke returned (unused on the
\* fallback path)
AnswerApp(ctx, ds, raw_answer) ==
    (IF IsFallback(ctx) THEN FALLBACK_APP ELSE Strip(raw_answer)) \o FooterApp(ds)

Message(role, content) == [role |-> role, content |-> content]

\* lines 93-94 (app.py), 62 and 74 (test.py)
AppendTurn(h, question, reply) ==
    h \o <<Message("user", question), Message("assistant", reply)>>

(***************************************************************************)
(* Inputs of a turn.                                                       *)
(***************************************************************************)
ChatQueries ==
    { "What is a Heart Attack?", " flu ", "stroke or lockjaw",
      "diabetes", "  " }

\* the persisted index the scripts open: two chunks of one record and a
\* chunk written without a source link
ChatIndex == <<
    [ page_content |-> "Title: Acute myocardial infarction\nDefinition: Necrosis of the myocardium.",
      metadata |-> [ icd_code |-> "BA41", browser_url |-> "https://icd.who.int/BA41",
                     position |-> 0 ] ],
    [ page_content |-> "SourceURL: x\nICDCode: 41",
      metadata |-> [ icd_code |-> "BA41", browser_url |-> "https://icd.who.int/BA41",
                     position |-> 1 ] ],
    [ page_content |-> "Title: Flu\nICDCode: 1E32\n ",
      metadata |-> [ icd_code |-> "1E32", position |-> 0 ] ] >>

Min(a, b) == IF a <= b THEN a ELSE b

\* what retriever.invoke may answer with search_kwargs k: up to k chunks of
\* the index, ranked
Hits(k) ==
    { [i \in 1..Len(s) |-> ChatIndex[s[i]]] :
        s \in { t \in UNION { [1..n -> 1..Len(ChatIndex)] :
                                n \in 0..Min(k, Len(ChatIndex)) } :
                  \A i, j \in 1..Len(t) : i # j => t[i] # t[j] } }

\* what llm.invoke may return; LLM_FAILS stands for a raised exception
LLM_FAILS == "<llm raises>"
LlmOutcomes == { "  Myocardial infarction is BA41.\n", "I'm not sure.", LLM_FAILS }

\* the inputs of one turn of app.py: the query, the retriever's answers
\* (second is read only when a second search is issued), the model's
\* outcome (read only when the model is invoked)
TurnInputs ==
    { x \in [ query : ChatQueries, first : Hits(top_k), second : Hits(top_k), out : LlmOutcomes ] :
        LET syn == FirstSynonym(x.query)
            ds  == IF SecondSearch(syn, x.first) THEN x.second ELSE x.first
        IN  /\ (~SecondSearch(syn, x.first) => x.second = <<>>)
            /\ ((ds = <<>> \/ IsFallback(CombinedContext(ds)))
                    => x.out = "I'm not sure.") }

\* medical_chat of app.py on inputs x, up to line 90: the values it has
\* computed when it comes to append to the history
MedicalChatResult(x) ==
    LET r      == retrieve_icd_context(x.query, x.first, x.second)
        called == ~IsFallback(r.context)
        raised == called /\ x.out = LLM_FAILS
    IN  [ user_message |-> x.query,
          first    |-> x.first,
          docs     |-> r.docs,
          context  |-> r.context,
          searches |-> r.searches,
          llmCalls |-> IF called THEN <<PromptApp(r.context, x.query)>> ELSE <<>>,
          answer   |-> IF raised THEN "" ELSE AnswerApp(r.context, r.docs, x.out),
          raised   |-> raised ]

\* the turns app.py can take
AppTurns == { MedicalChatResult(x) : x \in TurnInputs }

\* the histories a turn can start from: a fresh session, or one earlier
\* exchange
StartHistories ==
    { <<>>, AppendTurn(<<>>, "diabetes", FALLBACK_APP \o NO_MATCH) }

(***************************************************************************)
(* src/test.py: the streaming variant of the chat turn.                    *)
(***************************************************************************)
LOADING       == "Processing your query..."
FALLBACK_TEST == "I'm not sure, this information is not found in ICD-11."
REFS_TEST     == "\n\n*Based on ICD-11 entries:* "
CURSOR        == "|"

\* lines 16-22: no expansion, one search
retrieve_icd_context_test(query, first) ==
    [ searches |-> <<query>>,
      context  |-> IF first = <<>> THEN "" ELSE CombinedContext(first),
      docs     |-> first ]

\* lines 37-49
PromptTest(ctx, question) ==
    "\nYou are a strict ICD-11 medical assistant.\nICD-11 Context:\n" \o ctx
    \o "\n\nQuestion: " \o question \o "\n\nAnswer:\n"

\* line 54
SourcesTest(ds) == [i \in 1..Len(ds) |-> Get(ds[i].metadata, "icd_code", "unknown")]

Range(f) == { f[i] : i \in DOMAIN f }

\* the orders in which iterating set(sources) can yield its elements
SetOrders(S) == { o \in [1..Cardinality(S) -> S] : Range(o) = S }

\* lines 55-58; order is the iteration order of set(sources)
FooterTest(ds, order) ==
    IF ds # <<>> THEN REFS_TEST \o Join(", ", order) ELSE NO_MATCH

\* lines 34-58
AnswerTest(ctx, ds, raw_answer, order) ==
    (IF ctx = "" THEN FALLBACK_TEST ELSE Strip(raw_answer)) \o FooterTest(ds, order)

TestQueries == { "diabetes", " Flu " }

TestInputs ==
    { x \in [ query : TestQueries, first : Hits(top_k), out : LlmOutcomes,
              order : UNION { SetOrders(Range(SourcesTest(h))) : h \in Hits(top_k) } ] :
        /\ Range(x.order) = Range(SourcesTest(x.first))
        /\ (x.first = <<>> => x.out = "I'm not sure.") }

\* medical_chat of test.py on inputs x, lines 31-58
MedicalChatTestResult(x) ==
    LET r      == retrieve_icd_context_test(x.query, x.first)
        called == r.context # ""
        raised == called /\ x.out = LLM_FAILS
        reply  == IF raised THEN "" ELSE AnswerTest(r.context, r.docs, x.out, x.order)
    IN  [ user_message |-> x.query,
          first    |-> x.first,
          docs     |-> r.docs,
          context  |-> r.context,
          searches |-> r.searches,
          llmCalls |-> IF called THEN <<PromptTest(r.context, x.query)>> ELSE <<>>,
          answer   |-> reply,
          words    |-> Split(reply),
          raised   |-> raised ]

TestTurns == { MedicalChatTestResult(x) : x \in TestInputs }

\* a pop that leaves the list as it is
PopNothing(h) == h

\* list.pop()
Pop(h) == SubSeq(h, 1, Len(h) - 1)

Ready == pc \in {"idle", "done", "failed"}
MayStart == Ready /\ turns < MaxTurns

ChatFresh ==
    /\ pc = "idle"
    /\ turns = 0
    /\ user_message = ""
    /\ prior = <<>>
    /\ history = <<>>
    /\ first_hits = <<>>
    /\ docs = <<>>
    /\ context = ""
    /\ searches = <<>>
    /\ llmCalls = <<>>
    /\ answer = ""
    /\ words = <<>>
    /\ partial = ""

ExpandFresh == eq = "" /\ epc = "start" /\ e1 = "" /\ e2 = ""

\* preprocess.py not started
IndexIdle ==
    /\ json_dir = <<>>
    /\ skip_missing_defs = FALSE
    /\ batch_size = 1
    /\ bpc = "off"
    /\ runs = 0
    /\ total_json = 0
    /\ skipped_missing_defs = 0
    /\ code2url = <<>>
    /\ cleaned_files = <<>>
    /\ file_idx = 0
    /\ skip_log = <<>>
    /\ txt_dir = <<>>
    /\ unwritable = {}
    /\ chunk_docs = <<>>
    /\ offset = 0
    /\ step = "add"
    /\ vectordb = "None"
    /\ stored = <<>>
    /\ persisted = <<>>
    /\ index_at_start = <<>>
    /\ count = 0
    /\ log = <<>>

InitChat ==
    /\ program \in {"app", "test"}
    /\ chatbot \in StartHistories
    /\ ChatFresh
    /\ ExpandFresh
    /\ IndexIdle

\* app.py: the click handler runs medical_chat to completion and writes its
\* result to the chatbot; an exception of llm.invoke leaves the chatbot as
\* it was
MedicalChatApp ==
    /\ UNCHANGED <<expandVars, indexVars>>
    /\ program = "app" /\ MayStart
    /\ \E t \in AppTurns :
        LET h == IF t.raised THEN chatbot
                 ELSE AppendTurn(chatbot, t.user_message, t.answer)
        IN  /\ user_message' = t.user_message
            /\ prior' = chatbot
            /\ first_hits' = t.first
            /\ docs' = t.docs
            /\ context' = t.context
            /\ searches' = t.searches
            /\ llmCalls' = t.llmCalls
            /\ answer' = t.answer
            /\ history' = h
            /\ chatbot' = h
            /\ pc' = IF t.raised THEN "failed" ELSE "done"
    /\ turns' = turns + 1
    /\ UNCHANGED <<program, words, partial>>

\* test.py lines 27-28: the loading entry is appended and shown
TestBegin ==
    /\ UNCHANGED <<expandVars, indexVars>>
    /\ program = "test" /\ MayStart
    /\ \E q \in TestQueries : user_message' = q
    /\ prior' = chatbot
    /\ history' = Append(chatbot, Message("assistant", LOADING))
    /\ chatbot' = history'
    /\ pc' = "loading"
    /\ turns' = turns + 1
    /\ first_hits' = <<>> /\ docs' = <<>> /\ context' = "" /\ searches' = <<>>
    /\ llmCalls' = <<>> /\ answer' = "" /\ words' = <<>> /\ partial' = ""
    /\ UNCHANGED program

\* test.py lines 31-65: retrieval, guardrail, model, sources; the loading
\* entry is popped and the user entry appended.  An exception of llm.invoke
\* ends the generator with the loading entry still shown
TestRespond ==
    /\ UNCHANGED <<expandVars, indexVars>>
    /\ pc = "loading"
    /\ \E t \in TestTurns :
        /\ t.user_message = user_message
        /\ first_hits' = t.first
        /\ docs' = t.docs
        /\ context' = t.context
        /\ searches' = t.searches
        /\ llmCalls' = t.llmCalls
        /\ answer' = t.answer
        /\ words' = t.words
        /\ history' = IF t.raised THEN history
                      ELSE Append(Pop(history), Message("user", user_message))
        /\ pc' = IF t.raised THEN "failed" ELSE "stream"
    /\ UNCHANGED <<program, chatbot, turns, user_message, prior, partial>>

\* test.py lines 66-71: one word more is shown, after the history
TestStream ==
    /\ UNCHANGED <<expandVars, indexVars>>
    /\ pc = "stream" /\ words # <<>>
    /\ partial' = partial \o Head(words) \o " "
    /\ words' = Tail(words)
    /\ chatbot' = history \o <<Message("assistant", Strip(partial') \o CURSOR)>>
    /\ UNCHANGED <<program, pc, turns, user_message, prior, history, first_hits,
                   docs, context, searches, llmCalls, answer>>

\* test.py lines 74-75
TestFinal ==
    /\ UNCHANGED <<expandVars, indexVars>>
    /\ pc = "stream" /\ words = <<>>
    /\ history' = Append(history, Message("assistant", answer))
    /\ chatbot' = history'
    /\ pc' = "done"
    /\ UNCHANGED <<program, turns, user_message, prior, first_hits, docs, context,
                   searches, llmCalls, answer, words, partial>>

\* clear_btn.click(lambda: [], None, chatbot); the finished handler's locals
\* are gone
Clear ==
    /\ UNCHANGED <<expandVars, indexVars>>
    /\ Ready
    /\ chatbot # <<>>
    /\ chatbot' = <<>>
    /\ pc' = "idle"
    /\ user_message' = "" /\ prior' = <<>> /\ history' = <<>>
    /\ first_hits' = <<>> /\ docs' = <<>> /\ context' = "" /\ searches' = <<>>
    /\ llmCalls' = <<>> /\ answer' = "" /\ words' = <<>> /\ partial' = ""
    /\ UNCHANGED <<program, turns>>

NextChat ==
    \/ MedicalChatApp
    \/ TestBegin
    \/ TestRespond
    \/ TestStream
    \/ TestFinal
    \/ Clear

Spec == InitChat /\ [][NextChat]_vars

(***************************************************************************)
(* The query expansion of retrieve_icd_context applied to a range of       *)
(* queries, and to its own result.                                         *)
(***************************************************************************)
Pieces == << "What is a ", "what is a ", "heart attack?", "Heart Attack",
             "stroke", " FLU\n", "german", " measles", "whooping cough " >>

RECURSIVE Concat(_)
Concat(ps) == IF ps = <<>> THEN "" ELSE Head(ps) \o Concat(Tail(ps))

ExpandQueries ==
    { Concat([i \in 1..Len(c) |-> Pieces[c[i]]]) :
        c \in UNION { [1..n -> 1..Len(Pieces)] : n \in 0..MaxTokens } }

InitExpand ==
    /\ program = "app"
    /\ chatbot = <<>>
    /\ ChatFresh
    /\ eq \in ExpandQueries
    /\ epc = "start"
    /\ e1 = ""
    /\ e2 = ""
    /\ IndexIdle

ExpandOnce ==
    /\ UNCHANGED <<chatVars, indexVars>>
    /\ epc = "start"
    /\ e1' = ExpandQuery(eq)
    /\ epc' = "once"
    /\ UNCHANGED <<eq, e2>>

ExpandTwice ==
    /\ UNCHANGED <<chatVars, indexVars>>
    /\ epc = "once"
    /\ e2' = ExpandQuery(e1)
    /\ epc' = "twice"
    /\ UNCHANGED <<eq, e1>>

NextExpand == ExpandOnce \/ ExpandTwice

SpecExpand == InitExpand /\ [][NextExpand]_vars

(***************************************************************************)
(* src/preprocess.py: helpers.                                             *)
(***************************************************************************)
MaxNameLen == 80

\* a key the JSON object does not have; a value that is not a JSON object
MISSING    == "<missing>"
NOT_OBJECT == "<not an object>"

Digits == "0123456789"

\* str.rstrip("/")
RECURSIVE RStripSlash(_)
RStripSlash(s) ==
    IF s # "" /\ Char(s, Len(s)) = "/"
    THEN RStripSlash(SubSeq(s, 1, Len(s) - 1))
    ELSE s

\* str.split("/")[-1]
RECURSIVE AfterLastSlash(_)
AfterLastSlash(s) ==
    IF ~Contains("/", s) THEN s ELSE AfterLastSlash(Tail(s))

\* lines 45-47
extract_code_from_id(raw_id) == AfterLastSlash(RStripSlash(raw_id))

\* the characters \w matches
WordChars ==
    { Char(Upper, i) : i \in 1..Len(Upper) } \cup { Char(Lower, i) : i \in 1..Len(Lower) }
    \cup { Char(Digits, i) : i \in 1..Len(Digits) } \cup {"_"}

\* the characters the pattern [^\w\- ] of line 104 leaves in place
KeptChars == WordChars \cup {"-", " "}

Kept(c) == c \in KeptChars

\* re.sub(r"[^\w\- ]", "", s)
RECURSIVE Sanitize(_)
Sanitize(s) ==
    IF s = "" THEN ""
    ELSE (IF Kept(Head(s)) THEN Head(s) ELSE "") \o Sanitize(Tail(s))

\* s[:n]
Take(s, n) == SubSeq(s, 1, Min(n, Len(s)))

Or(value, default) == IF value = MISSING THEN default ELSE value

\* line 104
FileStem(code, f) == Take(Sanitize(code \o "_" \o Or(f.title, "")), MaxNameLen)

\* line 105
TxtName(stem) == stem \o ".txt"

\* Path.stem of a name ending in ".txt"
Stem(name) == SubSeq(name, 1, Len(name) - 4)

\* str.split("_")[0]
RECURSIVE BeforeUnderscore(_)
BeforeUnderscore(s) ==
    IF s = "" \/ Head(s) = "_" THEN ""
    ELSE Head(s) \o BeforeUnderscore(Tail(s))

\* lines 49-64
entry_to_text(f, code) ==
    LET title      == Or(f.title, "Untitled ICD Entry " \o code)
        definition == Or(f.definition, "")
        url        == Or(f.browserUrl, "")
    IN  Join("\n",
             <<"Title: " \o title>>
             \o (IF f.synonym # <<>> THEN <<"Synonyms: " \o Join("; ", f.synonym)>> ELSE <<>>)
             \o (IF definition # "" THEN <<"Definition: " \o definition>> ELSE <<>>)
             \o (IF url # "" THEN <<"SourceURL: " \o url>> ELSE <<>>)
             \o <<"ICDCode: " \o code>>)

\* line 94
CodeOf(f) == extract_code_from_id(Or(f.id, f.name))

\* a skip that does not look at the definition
SkipWheneverAsked(skip, definition) == skip

\* line 99
SkipEntry(skip, definition) == skip /\ definition = ""

\* dict item assignment
Put(d, key, value) == (key :> value) @@ d

\* the body of the pass-1 loop for file f, lines 92-110: where it ends and
\* what it has computed by then; write_text raises for the names in blocked
ProcessEntry(f, skip, blocked) ==
    IF f.json # "ok" THEN [ result |-> "error", reason |-> "json" ]
    ELSE LET code == CodeOf(f)
             stem == FileStem(code, f)
         IN  IF f.definition = NOT_OBJECT
               THEN [ result |-> "error", reason |-> "shape", code |-> code ]
             ELSE IF SkipEntry(skip, Or(f.definition, ""))
               THEN [ result |-> "skipped", code |-> code ]
             ELSE IF TxtName(stem) \in blocked
               THEN [ result |-> "error", reason |-> "write", code |-> code ]
             ELSE [ result |-> "written", code |-> code,
                    name |-> TxtName(stem), text |-> entry_to_text(f, code) ]

\* splitter.split_text of line 124: windows of chunk_size characters, each
\* starting chunk_overlap characters before the end of the one before
RECURSIVE SplitText(_)
SplitText(text) ==
    IF text = "" THEN <<>>
    ELSE IF Len(text) <= chunk_size THEN <<text>>
    ELSE <<Take(text, chunk_size)>>
         \o SplitText(SubSeq(text, chunk_size - chunk_overlap + 1, Len(text)))

\* lines 121-133 for one text file
ChunksOf(tfile, urls, files) ==
    LET code   == BeforeUnderscore(Stem(tfile))
        url    == Get(urls, code, "")
        pieces == SplitText(files[tfile])
    IN  [ pos \in 1..Len(pieces) |->
            [ page_content |-> pieces[pos],
              metadata |-> [ icd_code    |-> code,
                             browser_url |-> url,
                             source_file |-> tfile,
                             position    |-> pos - 1 ] ] ]

\* lines 119-133
RECURSIVE ChunkAll(_, _, _)
ChunkAll(tfiles, urls, files) ==
    IF tfiles = <<>> THEN <<>>
    ELSE ChunksOf(Head(tfiles), urls, files) \o ChunkAll(Tail(tfiles), urls, files)

\* a batch that reaches one chunk into the next
BatchOneTooMany(ds, from, size) == SubSeq(ds, from + 1, Min(from + size + 1, Len(ds)))

\* line 144: docs[i:i + batch_size]
Batch(ds, from, size) == SubSeq(ds, from + 1, Min(from + size, Len(ds)))

(***************************************************************************)
(* src/utils/convert_json_to_text.py: helpers.                             *)
(***************************************************************************)
MaxTitleName == 60

\* line 16:  ... or f"Untitled ICD Entry [{file.stem}]"
TitleOrPlaceholder(f) ==
    IF Or(f.title, "") = "" THEN "Untitled ICD Entry [" \o f.name \o "]" ELSE f.title

\* line 40
ConvertName(f) == Take(Sanitize(TitleOrPlaceholder(f)), MaxTitleName) \o ".txt"

\* lines 26-37
ConvertText(f) ==
    Join("\n\n",
         <<" Title: " \o TitleOrPlaceholder(f)>>
         \o (IF f.synonym # <<>> THEN <<" Synonyms:\n- " \o Join("\n- ", f.synonym)>> ELSE <<>>)
         \o (IF Or(f.definition, "") # ""
             THEN <<" Definition:\n" \o f.definition>>
             ELSE <<" No definition provided for this ICD entity.">>)
         \o (IF Or(f.browserUrl, "") # "" THEN <<" Source: " \o f.browserUrl>> ELSE <<>>))

\* lines 12-48 for file f: how the loop body ends
ConvertEntry(f, blocked) ==
    IF f.json # "ok" THEN "exception"
    ELSE IF f.definition = NOT_OBJECT THEN "exception"
    ELSE IF ConvertName(f) \in blocked THEN "exception"
    ELSE IF Or(f.definition, "") = "" THEN "missing_definition"
    ELSE "converted"

(***************************************************************************)
(* The input files build_index may find in json_dir.                       *)
(***************************************************************************)
FileCatalog == <<
    [ name |-> "101", json |-> "ok",
      id |-> "http://id.who.int/icd/entity/101",
      title |-> "Cholera", definition |-> "Acute diarrhoeal infection.",
      browserUrl |-> "https://icd.who.int/101", synonym |-> <<>> ],
    [ name |-> "102", json |-> "ok",
      id |-> "http://id.who.int/icd/entity/102",
      title |-> "Typhoid fever", definition |-> MISSING,
      browserUrl |-> "https://icd.who.int/102", synonym |-> <<>> ],
    [ name |-> "103", json |-> "ok",
      id |-> "http://id.who.int/icd/entity/103/",
      title |-> MISSING, definition |-> "",
      browserUrl |-> MISSING, synonym |-> <<"Lockjaw", "Trismus">> ],
    [ name |-> "broken", json |-> "invalid",
      id |-> MISSING, title |-> MISSING, definition |-> MISSING,
      browserUrl |-> MISSING, synonym |-> <<>> ],
    [ name |-> "104", json |-> "ok",
      id |-> "http://id.who.int/icd/entity/104",
      title |-> "Plague", definition |-> NOT_OBJECT,
      browserUrl |-> "https://icd.who.int/104", synonym |-> <<>> ],
    [ name |-> "x_7", json |-> "ok",
      id |-> MISSING,
      title |-> "Tetanus (A.35)", definition |-> "Lockjaw.",
      browserUrl |-> "https://icd.who.int/x7", synonym |-> <<>> ],
    [ name |-> "101_mms", json |-> "ok",
      id |-> "http://id.who.int/icd/release/11/mms/101",
      title |-> "Cholera", definition |-> "Vibrio cholerae.",
      browserUrl |-> "https://icd.who.int/m101", synonym |-> <<>> ] >>

\* the directories: distinct files, in any order
Directories ==
    { [k \in 1..Len(c) |-> FileCatalog[c[k]]] :
        c \in { t \in UNION { [1..n -> 1..Len(FileCatalog)] : n \in 0..MaxFiles } :
                  \A a, b \in 1..Len(t) : a # b => t[a] # t[b] } }

\* the names either script calls write_text for, given the directory
WriteTargets(dir, script, skip) ==
    IF script = "convert"
    THEN { ConvertName(dir[k]) :
             k \in { j \in 1..Len(dir) : ConvertEntry(dir[j], {}) # "exception" } }
    ELSE { ProcessEntry(dir[k], skip, {}).name :
             k \in { j \in 1..Len(dir) :
                       ProcessEntry(dir[j], skip, {}).result = "written" } }

(***************************************************************************)
(* src/preprocess.py: build_index.                                         *)
(***************************************************************************)
\* lines 82-87
RunStarts ==
    /\ total_json' = 0
    /\ skipped_missing_defs' = 0
    /\ code2url' = <<>>
    /\ cleaned_files' = <<>>
    /\ file_idx' = 0
    /\ skip_log' = <<>>
    /\ chunk_docs' = <<>>
    /\ offset' = 0
    /\ step' = "add"
    /\ vectordb' = "None"
    /\ stored' = <<>>

InitIndex ==
    /\ program = "app"
    /\ chatbot = <<>>
    /\ ChatFresh
    /\ ExpandFresh
    /\ json_dir \in Directories
    /\ \/ /\ bpc = "pass1"
          /\ skip_missing_defs \in BOOLEAN
          /\ batch_size \in 1..MaxBatch
       \/ /\ bpc = "convert"
          /\ skip_missing_defs = FALSE
          /\ batch_size = 1
    /\ runs = 1
    /\ total_json = 0
    /\ skipped_missing_defs = 0
    /\ code2url = <<>>
    /\ cleaned_files = <<>>
    /\ file_idx = 0
    /\ skip_log = <<>>
    /\ txt_dir = <<>>
    /\ unwritable \in SUBSET WriteTargets(json_dir, bpc, skip_missing_defs)
    /\ chunk_docs = <<>>
    /\ offset = 0
    /\ step = "add"
    /\ vectordb = "None"
    /\ stored = <<>>
    /\ persisted = <<>>
    /\ index_at_start = <<>>
    /\ count = 0
    /\ log = <<>>

\* a loop that an exception ends
NextFileUnlessError(idx, result, n) == IF result = "error" THEN n ELSE idx + 1

\* the loop goes on with the next file after an iteration, however it ended
NextFile(idx, result, n) == idx + 1

\* lines 90-110: one iteration of the pass-1 loop
Pass1File ==
    /\ bpc = "pass1" /\ file_idx < Len(json_dir)
    /\ UNCHANGED <<chatVars, expandVars, count, log>>
    /\  LET f == json_dir[file_idx + 1]
            r == ProcessEntry(f, skip_missing_defs, unwritable)
        IN  /\ total_json' = total_json + 1
            /\ code2url' = IF f.json = "ok"
                           THEN Put(code2url, r.code, Or(f.browserUrl, ""))
                           ELSE code2url
            /\ skipped_missing_defs' =
                  IF r.result = "skipped" THEN skipped_missing_defs + 1
                  ELSE skipped_missing_defs
            /\ txt_dir' = IF r.result = "written" THEN Put(txt_dir, r.name, r.text)
                          ELSE txt_dir
            /\ cleaned_files' = IF r.result = "written"
                                THEN Append(cleaned_files, r.name)
                                ELSE cleaned_files
            /\ skip_log' = IF r.result = "error"
                           THEN Append(skip_log, <<f.name, r.reason>>)
                           ELSE skip_log
            /\ file_idx' = NextFile(file_idx, r.result, Len(json_dir))
    /\ UNCHANGED <<json_dir, unwritable, skip_missing_defs, batch_size, bpc, runs, chunk_docs,
                   offset, step, vectordb, stored, persisted, index_at_start>>

\* lines 112-133: the summary is printed and the text files are chunked
Pass2 ==
    /\ bpc = "pass1" /\ file_idx >= Len(json_dir)
    /\ UNCHANGED <<chatVars, expandVars, count, log>>
    /\ chunk_docs' = ChunkAll(cleaned_files, code2url, txt_dir)
    /\ bpc' = "pass3"
    /\ UNCHANGED <<json_dir, unwritable, skip_missing_defs, batch_size, runs, total_json,
                   skipped_missing_defs, code2url, cleaned_files, file_idx,
                   skip_log, txt_dir, offset, step, vectordb, stored, persisted,
                   index_at_start>>

\* lines 144-154: the batch is embedded and added to the collection.  The
\* first batch opens the collection of index_dir (Chroma.from_documents) with
\* what it already holds and adds to it under fresh ids.  Depending on the
\* chromadb release the addition reaches index_dir at once or only with
\* persist()
AddBatch ==
    /\ bpc = "pass3" /\ step = "add" /\ offset < Len(chunk_docs)
    /\ UNCHANGED <<chatVars, expandVars, count, log>>
    /\ stored' = (IF vectordb = "None" THEN persisted ELSE stored)
                    \o Batch(chunk_docs, offset, batch_size)
    /\ vectordb' = "open"
    /\ persisted' \in {persisted, stored'}
    /\ step' = "persist"
    /\ UNCHANGED <<json_dir, unwritable, skip_missing_defs, batch_size, bpc, runs, total_json,
                   skipped_missing_defs, code2url, cleaned_files, file_idx,
                   skip_log, txt_dir, chunk_docs, offset, index_at_start>>

\* the embedding model raises while the batch is embedded: nothing of the
\* batch is added, the exception ends build_index
EmbedFails ==
    /\ bpc = "pass3" /\ step = "add" /\ offset < Len(chunk_docs)
    /\ UNCHANGED <<chatVars, expandVars, count, log>>
    /\ bpc' = "crashed"
    /\ UNCHANGED <<json_dir, unwritable, skip_missing_defs, batch_size, runs, total_json,
                   skipped_missing_defs, code2url, cleaned_files, file_idx,
                   skip_log, txt_dir, chunk_docs, offset, step, vectordb, stored,
                   persisted, index_at_start>>

\* line 155, and the loop goes to the next offset
PersistBatch ==
    /\ bpc = "pass3" /\ step = "persist"
    /\ UNCHANGED <<chatVars, expandVars, count, log>>
    /\ persisted' = stored
    /\ offset' = offset + batch_size
    /\ step' = "add"
    /\ UNCHANGED <<json_dir, unwritable, skip_missing_defs, batch_size, bpc, runs, total_json,
                   skipped_missing_defs, code2url, cleaned_files, file_idx,
                   skip_log, txt_dir, chunk_docs, vectordb, stored, index_at_start>>

\* line 157
Pass3Done ==
    /\ bpc = "pass3" /\ step = "add" /\ offset >= Len(chunk_docs)
    /\ UNCHANGED <<chatVars, expandVars, count, log>>
    /\ bpc' = "done"
    /\ UNCHANGED <<json_dir, unwritable, skip_missing_defs, batch_size, runs, total_json,
                   skipped_missing_defs, code2url, cleaned_files, file_idx,
                   skip_log, txt_dir, chunk_docs, offset, step, vectordb, stored,
                   persisted, index_at_start>>

\* the process is interrupted during the embedding pass
Interrupt ==
    /\ bpc = "pass3"
    /\ UNCHANGED <<chatVars, expandVars, count, log>>
    /\ bpc' = "stopped"
    /\ UNCHANGED <<json_dir, unwritable, skip_missing_defs, batch_size, runs, total_json,
                   skipped_missing_defs, code2url, cleaned_files, file_idx,
                   skip_log, txt_dir, chunk_docs, offset, step, vectordb, stored,
                   persisted, index_at_start>>

\* preprocess.py is started again with the same arguments: build_index runs
\* from line 82 on; txt_dir and index_dir are as the last run left them
Restart ==
    /\ bpc \in {"done", "crashed", "stopped"}
    /\ UNCHANGED <<chatVars, expandVars, count, log>>
    /\ runs < MaxRuns
    /\ RunStarts
    /\ bpc' = "pass1"
    /\ runs' = runs + 1
    /\ index_at_start' = persisted
    /\ UNCHANGED <<json_dir, unwritable, skip_missing_defs, batch_size, txt_dir, persisted>>

(***************************************************************************)
(* src/utils/convert_json_to_text.py: the stand-alone conversion script.   *)
(***************************************************************************)
\* lines 11-48: one iteration of the loop
ConvertFile ==
    /\ bpc = "convert" /\ file_idx < Len(json_dir)
    /\ UNCHANGED <<chatVars, expandVars>>
    /\  LET f == json_dir[file_idx + 1]
            r == ConvertEntry(f, unwritable)
        IN  /\ txt_dir' = IF r # "exception"
                          THEN Put(txt_dir, ConvertName(f), ConvertText(f))
                          ELSE txt_dir
            /\ count' = IF r # "exception" THEN count + 1 ELSE count
            /\ log' = IF r # "converted" THEN Append(log, <<f.name, r>>) ELSE log
            /\ file_idx' = NextFile(file_idx, IF r = "exception" THEN "error" ELSE r,
                                    Len(json_dir))
    /\ UNCHANGED <<json_dir, unwritable, skip_missing_defs, batch_size, bpc, runs, total_json,
                   skipped_missing_defs, code2url, cleaned_files, skip_log,
                   chunk_docs, offset, step, vectordb, stored, persisted,
                   index_at_start>>

\* lines 50-54: the log file is written, the counts are printed
ConvertEnd ==
    /\ bpc = "convert" /\ file_idx >= Len(json_dir)
    /\ UNCHANGED <<chatVars, expandVars>>
    /\ txt_dir' = Put(txt_dir, "failure_log.txt", "")
    /\ bpc' = "converted"
    /\ UNCHANGED <<json_dir, unwritable, skip_missing_defs, batch_size, runs, total_json,
                   skipped_missing_defs, code2url, cleaned_files, file_idx,
                   skip_log, chunk_docs, offset, step, vectordb, stored, persisted,
                   index_at_start, count, log>>

NextIndex ==
    \/ ConvertFile
    \/ ConvertEnd
    \/ Pass1File
    \/ Pass2
    \/ AddBatch
    \/ EmbedFails
    \/ PersistBatch
    \/ Pass3Done
    \/ Interrupt
    \/ Restart

SpecIndex == InitIndex /\ [][NextIndex]_vars

(***************************************************************************)
(* Properties of the chat turn.                                            *)
(***************************************************************************)
Finished == pc \in {"done", "failed"}

\* C1: a completed chat turn returns the history it was given, unchanged
\* and in order, followed by exactly the user entry and then the assistant
\* entry of this turn; the loading entry test.py shows meanwhile is gone.
C1_HistoryGrowsByOneExchange ==
    pc = "done" =>
        /\ history = chatbot
        /\ Len(chatbot) = Len(prior) + 2
        /\ SubSeq(chatbot, 1, Len(prior)) = prior
        /\ chatbot[Len(prior) + 1] = [role |-> "user", content |-> user_message]
        /\ chatbot[Len(prior) + 2] = [role |-> "assistant", content |-> answer]
        /\ \A i \in (Len(prior) + 1)..Len(chatbot) : chatbot[i].content # LOADING

C1_Witness ==
    /\ program = "test" /\ pc = "done" /\ prior # <<>> /\ llmCalls # <<>>

\* C4: in app.py a context that is empty or shorter than 50 characters
\* takes the fallback path without a call of the model, and the model is
\* called (once) exactly when the context has at least 50 characters.
C4_ShortContextNeverCallsModel ==
    (program = "app" /\ Finished) =>
        /\ Len(llmCalls) <= 1
        /\ (llmCalls # <<>>) <=> (Len(context) >= 50)
        /\ Len(context) < 50 =>
              /\ pc = "done"
              /\ SubSeq(answer, 1, Len(FALLBACK_APP)) = FALLBACK_APP

C4_Witness ==
    /\ program = "app" /\ pc = "done" /\ docs # <<>>
    /\ context # "" /\ Len(context) < 50 /\ llmCalls = <<>>

\* C5: when retrieval ends with zero chunks, also after the second search,
\* the answer is the fixed fallback sentence followed by the no-match marker
\* and nothing else, and the model was not called.
C5_NoChunksGivesFallbackAndMarker ==
    (pc = "done" /\ docs = <<>>) =>
        /\ llmCalls = <<>>
        /\ answer = (IF program = "app" THEN FALLBACK_APP ELSE FALLBACK_TEST)
                        \o "\n\n*No exact ICD-11 match found.*"

C5_Witness ==
    /\ program = "app" /\ pc = "done" /\ docs = <<>> /\ Len(searches) = 2

\* the expansion as the specification words it: the normalized query, then
\* " " and the formal term of every pair whose informal term is in the
\* normalized query, in table order
RECURSIVE Suffixes(_, _)
Suffixes(normalized, k) ==
    IF k > Len(SYNONYM_MAP) THEN ""
    ELSE (IF Contains(SYNONYM_MAP[k][1], normalized)
          THEN " " \o SYNONYM_MAP[k][2] ELSE "")
         \o Suffixes(normalized, k + 1)

Expansion(q) == Strip(ToLower(q)) \o Suffixes(Strip(ToLower(q)), 1)

Matching(q) ==
    { k \in 1..Len(SYNONYM_MAP) : Contains(SYNONYM_MAP[k][1], ToLower(q)) }

\* C6: expanding q gives the lower-cased, trimmed q followed by " " and the
\* formal term of every pair, in table order, whose informal term occurs in
\* the normalized query; a query without informal term comes back
\* normalized, and expanding that again changes nothing; "what is a heart
\* attack?" gets " myocardial infarction" appended.
C6_ExpansionAppendsFormalTerms ==
    /\ epc # "start" =>
          /\ e1 = Expansion(eq)
          /\ Matching(eq) = {} => e1 = Strip(ToLower(eq))
          /\ eq = "what is a heart attack?"
                => e1 = "what is a heart attack? myocardial infarction"
    /\ (epc = "twice" /\ Matching(eq) = {}) => e2 = e1

C6_Witness ==
    /\ epc = "twice" /\ Cardinality(Matching(eq)) = 2 /\ e1 # eq /\ e2 # e1

\* C7: app.py searches first with the expanded query; it searches a second
\* time only if the first search found nothing and an informal term is in
\* the query, then with exactly the formal term of the first matching pair
\* in table order, and never a third time; with no chunks at the end the
\* context is empty.
C7_SearchOrder ==
    (program = "app" /\ Finished) =>
        /\ Len(searches) \in {1, 2}
        /\ searches[1] = Expansion(user_message)
        /\ Len(searches) = 2 =>
              /\ first_hits = <<>>
              /\ Matching(user_message) # {}
              /\ \E k \in Matching(user_message) :
                    /\ \A j \in Matching(user_message) : k <= j
                    /\ searches[2] = SYNONYM_MAP[k][2]
        /\ Len(searches) = 1 => docs = first_hits
        /\ docs = <<>> => context = ""

C7_Witness ==
    /\ program = "app" /\ pc = "done" /\ Len(searches) = 2 /\ docs # <<>>
    /\ Cardinality(Matching(user_message)) = 2

\* C11: whenever app.py answers with the fixed fallback sentence because the
\* combined context is shorter than 50 characters, no reference list is
\* appended to the answer, also when chunks were retrieved.
C11_FallbackCarriesNoReferences ==
    (program = "app" /\ pc = "done" /\ Len(context) < 50) =>
        ~Contains("ICD-11 References:", answer)

\* the elements of a sequence, each once, in the order of first occurrence
RECURSIVE FirstSeen(_)
FirstSeen(s) ==
    IF s = <<>> THEN <<>>
    ELSE LET before == FirstSeen(SubSeq(s, 1, Len(s) - 1))
             last   == s[Len(s)]
         IN  IF \E i \in 1..Len(before) : before[i] = last
             THEN before ELSE Append(before, last)

\* how the footer of either script names the record of a chunk
Cited(doc) ==
    LET m    == doc.metadata
        code == IF "icd_code" \in DOMAIN m THEN m.icd_code ELSE "unknown"
        url  == IF "browser_url" \in DOMAIN m THEN m.browser_url ELSE "#"
    IN  IF program = "app" THEN "[" \o code \o "](" \o url \o ")" ELSE code

EndsWith(s, tail) ==
    Len(tail) <= Len(s) /\ SubSeq(s, Len(s) - Len(tail) + 1, Len(s)) = tail

CitationList ==
    (IF program = "app" THEN "**ICD-11 References:** "
                        ELSE "*Based on ICD-11 entries:* ")
    \o Join(", ", FirstSeen([i \in 1..Len(docs) |-> Cited(docs[i])]))

\* C12: when chunks were retrieved, the footer of the answer lists each
\* distinct chunk identifier exactly once, in the order of its first
\* occurrence among the retrieved chunks, also when several chunks come from
\* the same record.
C12_FooterListsEachSourceOnceInOrder ==
    (pc = "done" /\ docs # <<>>) => EndsWith(answer, "\n\n" \o CitationList)

\* the same for the turns of app.py alone, and of test.py alone
C12_InApp  == program = "app" => C12_FooterListsEachSourceOnceInOrder
C12_InTest == program = "test" => C12_FooterListsEachSourceOnceInOrder


(***************************************************************************)
(* Properties of the index build.                                          *)
(***************************************************************************)
InPass3OrAfter == bpc \in {"pass3", "done", "crashed", "stopped"}

\* C2: when an interrupted build is started again on the same inputs and
\* index directory, the index holds each chunk once: no chunk of the
\* batches persisted before is in it a second time.
C2_ResumeAddsNoDuplicates ==
    \A a \in 1..Len(index_at_start) :
        \A b \in (Len(index_at_start) + 1)..Len(persisted) :
            persisted[a] # persisted[b]

\* C3: in the embedding pass the chunks go in consecutive batches of
\* batch_size, in list order, and index_dir holds at every point what it
\* held when the run began followed by the chunks of the first batches of
\* this run (nothing else, for a run that began on an empty index_dir); if
\* embedding fails in batch n+1, the run ends with batches 1..n persisted.
C3_IndexHoldsPrefixOfBatches ==
    LET n       == Len(chunk_docs)
        before  == SubSeq(chunk_docs, 1, Min(offset, n))
        with    == SubSeq(chunk_docs, 1, Min(offset + batch_size, n))
    IN  /\ runs = 1 => index_at_start = <<>>
        /\ ~InPass3OrAfter => persisted = index_at_start
        /\ InPass3OrAfter =>
              /\ offset % batch_size = 0
              /\ \/ persisted = index_at_start \o before
                 \/ step = "persist" /\ persisted = index_at_start \o with
              /\ bpc = "crashed" => persisted = index_at_start \o before
              /\ bpc = "done" => persisted = index_at_start \o chunk_docs

C3_Witness ==
    /\ runs = 1 /\ bpc = "crashed" /\ batch_size = 2
    /\ offset = 2 /\ Len(persisted) = 2 /\ Len(chunk_docs) > 2

\* the input file a text file name was written for
WrittenFor(name) ==
    { k \in 1..Len(json_dir) :
        /\ json_dir[k].json = "ok"
        /\ name = Take(Sanitize(CodeOf(json_dir[k]) \o "_"
                                  \o Or(json_dir[k].title, "")), 80) \o ".txt" }

\* C8: every chunk of pass 2 carries as icd_code the identifier of the
\* input record whose text block it was split from, with that record's
\* source link and file name, and the positions count 0, 1, 2, ... within
\* each text block.
C8_ChunkNamesItsRecord ==
    \A c \in 1..Len(chunk_docs) :
        LET m == chunk_docs[c].metadata
        IN  /\ \E k \in WrittenFor(m.source_file) :
                  /\ m.icd_code = CodeOf(json_dir[k])
                  /\ m.browser_url = Or(json_dir[k].browserUrl, "")
            /\ m.position =
                  Cardinality({ d \in 1..(c - 1) :
                      chunk_docs[d].metadata.source_file = m.source_file })

\* what the pass-1 loop is to do with a file, from the file alone
Unparsable(f)  == f.json # "ok"
BadShape(f)    == f.json = "ok" /\ f.definition = NOT_OBJECT
NoDefinition(f) == f.json = "ok" /\ f.definition \in {MISSING, ""}
Logged(f)      == \E e \in 1..Len(skip_log) : skip_log[e][1] = f.name
LoggedAs(f, reason) == \E e \in 1..Len(skip_log) : skip_log[e] = <<f.name, reason>>

\* the text file pass 1 is to write for each input file, and the one the
\* conversion script is to write, by the position of the file in FileCatalog
RECURSIVE TextFilesFrom(_)
TextFilesFrom(k) ==
    IF k > Len(FileCatalog) THEN <<>>
    ELSE LET f == FileCatalog[k]
         IN  <<Take(Sanitize(CodeOf(f) \o "_" \o Or(f.title, "")), 80) \o ".txt">>
             \o TextFilesFrom(k + 1)

RECURSIVE ConvertedFilesFrom(_)
ConvertedFilesFrom(k) ==
    IF k > Len(FileCatalog) THEN <<>>
    ELSE LET f     == FileCatalog[k]
             title == IF f.title \in {MISSING, ""}
                      THEN "Untitled ICD Entry [" \o f.name \o "]"
                      ELSE f.title
         IN  <<Take(Sanitize(title), 60) \o ".txt">> \o ConvertedFilesFrom(k + 1)

TextFiles      == TextFilesFrom(1)
ConvertedFiles == ConvertedFilesFrom(1)

InCatalog(f)      == CHOOSE k \in 1..Len(FileCatalog) : FileCatalog[k].name = f.name
TextFileOf(f)     == TextFiles[InCatalog(f)]
ConvertedFileOf(f) == ConvertedFiles[InCatalog(f)]

ConvertLogged(f) == \E e \in 1..Len(log) : log[e] = <<f.name, "exception">>

\* C9: an exception while one input file is processed is caught and logged
\* for that file only; the ingestion loop (pass 1 of build_index, and the
\* loop of convert_json_to_text.py) goes through every file of the
\* directory, and every file that neither fails nor is skipped has its text
\* file written, wherever the failing files stand in the order.
C9_FailuresStayWithTheirFile ==
    /\ bpc \notin {"convert", "converted"} =>
        /\ total_json = file_idx
        /\ bpc # "pass1" => total_json = Len(json_dir)
        /\ \A k \in 1..Min(file_idx, Len(json_dir)) :
              LET f == json_dir[k]
              IN  /\ (Unparsable(f) \/ BadShape(f)) => Logged(f)
                  /\ Logged(f) => \/ Unparsable(f) /\ LoggedAs(f, "json")
                                  \/ BadShape(f) /\ LoggedAs(f, "shape")
                                  \/ /\ TextFileOf(f) \in unwritable
                                     /\ LoggedAs(f, "write")
                  /\ (~Logged(f) /\ ~(skip_missing_defs /\ NoDefinition(f))) =>
                        /\ \E p \in 1..Len(cleaned_files) :
                              cleaned_files[p] = TextFileOf(f)
                        /\ TextFileOf(f) \in DOMAIN txt_dir
    /\ bpc \in {"convert", "converted"} =>
        /\ bpc = "converted" => file_idx = Len(json_dir)
        /\ file_idx <= Len(json_dir)
        /\ count = Cardinality({ k \in 1..file_idx : ~ConvertLogged(json_dir[k]) })
        /\ \A k \in 1..file_idx :
              LET f == json_dir[k]
              IN  /\ (Unparsable(f) \/ BadShape(f)) => ConvertLogged(f)
                  /\ ~ConvertLogged(f) => ConvertedFileOf(f) \in DOMAIN txt_dir

C9_Witness ==
    /\ bpc = "pass3" /\ Len(json_dir) = 2
    /\ Unparsable(json_dir[1]) /\ Len(skip_log) = 1
    /\ cleaned_files = <<TextFileOf(json_dir[2])>>

\* C10: with skip_missing_defs, a record without definition (missing or
\* empty) gets no text file and no chunk and adds exactly one to the
\* skipped counter, which after pass 1 is the number of such records.
C10_SkippedRecordsAreCountedAndLeftOut ==
    skip_missing_defs =>
        LET taken   == 1..Min(file_idx, Len(json_dir))
            without == { k \in taken : NoDefinition(json_dir[k]) }
        IN  /\ skipped_missing_defs = Cardinality(without)
            /\ Len(cleaned_files) + Len(skip_log) + skipped_missing_defs = file_idx
            /\ \A k \in without :
                  /\ TextFileOf(json_dir[k]) \notin DOMAIN txt_dir
                  /\ \A p \in 1..Len(cleaned_files) :
                        cleaned_files[p] # TextFileOf(json_dir[k])
                  /\ \A c \in 1..Len(chunk_docs) :
                        chunk_docs[c].metadata.source_file # TextFileOf(json_dir[k])
                  /\ \A c \in 1..Len(persisted) :
                        persisted[c].metadata.source_file # TextFileOf(json_dir[k])

C10_Witness ==
    /\ skip_missing_defs /\ bpc = "done" /\ skipped_missing_defs = 1
    /\ Len(cleaned_files) = 1 /\ persisted # <<>>

\* the records pass 1 has produced a text block for
Produced ==
    { k \in 1..Min(file_idx, Len(json_dir)) :
        /\ ~Logged(json_dir[k])
        /\ ~(skip_missing_defs /\ NoDefinition(json_dir[k])) }

\* C13: ingestion writes one text file per text block: two records that
\* each produce a text block never get the same file name, so after
\* ingestion every record's text file holds that record's text, and the
\* number of text files, and of entries chunked in pass 2, is the number of
\* text blocks produced (for the conversion script: the number converted).
C13_OneTextFilePerTextBlock ==
    /\ InPass3OrAfter =>
          /\ \A k, l \in Produced :
                k # l => TextFileOf(json_dir[k]) # TextFileOf(json_dir[l])
          /\ \A k \in Produced :
                /\ TextFileOf(json_dir[k]) \in DOMAIN txt_dir
                /\ txt_dir[TextFileOf(json_dir[k])]
                      = entry_to_text(json_dir[k], CodeOf(json_dir[k]))
          /\ Cardinality(DOMAIN txt_dir) = Cardinality(Produced)
          /\ Cardinality(Range(cleaned_files)) = Cardinality(Produced)
    /\ bpc = "converted" =>
          Cardinality(DOMAIN txt_dir \ {"failure_log.txt"}) = count

\* the same for build_index alone, and for the conversion script alone
C13_InBuildIndex == bpc # "converted" => C13_OneTextFilePerTextBlock
C13_InConvert    == bpc = "converted" => C13_OneTextFilePerTextBlock

====
